---- MODULE Spec2Model ----
(***************************************************************************)
(* Model of src/index.js: a WebRTC signaling server over websockets.       *)
(*                                                                         *)
(* The server keeps one registry object, `connections`, from identifier    *)
(* to connection.  Node runs every event handler to completion, so each    *)
(* handler (request, message, close, error) is one atomic action.  An      *)
(* exception thrown out of a handler is not caught anywhere in the file:   *)
(* it ends the process (`crashed`).                                        *)
(***************************************************************************)
EXTENDS Integers, Sequences, FiniteSets

(***************************************************************************)
(* Bounds of the model.                                                    *)
(***************************************************************************)
\* Number of `message` events handled in one run.
MaxFrames == 3

\* The connection objects request.accept can hand out in one run.
Conns == {"c1", "c2", "c3"}

(***************************************************************************)
(* JavaScript values, as far as the handlers look at them.  An object is   *)
(* the sequence of its own <<key, value>> properties in insertion order,   *)
(* keys distinct.                                                          *)
(***************************************************************************)
Undefined == [t |-> "undefined"]
Null == [t |-> "null"]
Bool(b) == [t |-> "boolean", b |-> b]
\* A number that is an integer.
Num(n) == [t |-> "number", n |-> n]
Str(s) == [t |-> "string", s |-> s]
Obj(props) == [t |-> "object", o |-> props]
Arr(elems) == [t |-> "array", a |-> elems]
Conn(c) == [t |-> "connection", c |-> c]
Builtin(name) == [t |-> "builtin", name |-> name]

\* v.key for a value that is neither null nor undefined; none of the keys the
\* handlers read ("type", "payload", "id", "source", "target") is a property of a
\* primitive.
Prop(v, key) ==
  IF v.t = "object" /\ \E i \in 1..Len(v.o) : v.o[i][1] = key
  THEN v.o[CHOOSE i \in 1..Len(v.o) : v.o[i][1] = key][2]
  ELSE Undefined

\* ToBoolean
Truthy(v) ==
  CASE v.t = "undefined" -> FALSE
    [] v.t = "null" -> FALSE
    [] v.t = "boolean" -> v.b
    [] v.t = "number" -> v.n # 0
    [] v.t = "string" -> v.s # ""
    [] OTHER -> TRUE

\* Number.prototype.toString for an integer.
Digits == "0123456789"

Digit(d) == SubSeq(Digits, d + 1, d + 1)

RECURSIVE NatToString(_)
NatToString(n) ==
  IF n < 10 THEN Digit(n) ELSE NatToString(n \div 10) \o Digit(n % 10)

NumberToString(n) == IF n < 0 THEN "-" \o NatToString(-n) ELSE NatToString(n)

\* ToString of a value throws a TypeError ("Cannot convert object to primitive
\* value"): an object out of JSON.parse with an own property "toString" has no
\* callable toString, and its valueOf is absent, not callable or returns the
\* object.  An array converts its elements, null and undefined excepted.
RECURSIVE ToStrThrows(_)
ToStrThrows(v) ==
  CASE v.t = "object" -> \E i \in 1..Len(v.o) : v.o[i][1] = "toString"
    [] v.t = "array" ->
         \E i \in 1..Len(v.a) :
           v.a[i].t \notin {"undefined", "null"} /\ ToStrThrows(v.a[i])
    [] OTHER -> FALSE

\* What a conversion that throws yields in place of a string.
TypeError == [t |-> "TypeError"]

RECURSIVE ToStr(_), Join(_)

\* Array.prototype.join(","): null and undefined elements give the empty string,
\* every other element its ToString.
Join(elems) ==
  IF ToStrThrows(Arr(elems)) THEN TypeError
  ELSE IF elems = <<>> THEN ""
  ELSE LET head == IF elems[1].t \in {"undefined", "null"}
                   THEN ""
                   ELSE ToStr(elems[1])
       IN  IF Len(elems) = 1 THEN head ELSE head \o "," \o Join(Tail(elems))

\* ToString of a value used as a property key or inside a template literal.
ToStr(v) ==
  IF ToStrThrows(v) THEN TypeError
  ELSE CASE v.t = "string" -> v.s
         [] v.t = "undefined" -> "undefined"
         [] v.t = "null" -> "null"
         [] v.t = "boolean" -> IF v.b THEN "true" ELSE "false"
         [] v.t = "number" -> NumberToString(v.n)
         [] v.t = "array" -> Join(v.a)
         [] v.t = "object" -> "[object Object]"

Min(a, b) == IF a < b THEN a ELSE b

\* Mutant: the end index is taken inclusive, one element too many is kept.
slice_inclusive(s, from, to) == SubSeq(s, from + 1, Min(to + 1, Len(s)))

\* String.prototype.slice(from, to) and Array.prototype.slice(from, to) for
\* 0 <= from <= to: the same operation on the characters or on the elements.
slice(s, from, to) == SubSeq(s, from + 1, Min(to, Len(s)))

\* String.prototype.startsWith
startsWith(s, prefix) ==
  Len(prefix) <= Len(s) /\ SubSeq(s, 1, Len(prefix)) = prefix

(***************************************************************************)
(* JSON.  A text frame's utf8Data either parses to a value or does not;    *)
(* JSON.stringify of a value is the text that parses back to it.           *)
(***************************************************************************)
JSONstringify(v) == [parses |-> TRUE, value |-> v]
NotJSON == [parses |-> FALSE]
JSONparse(text) ==
  IF text.parses THEN [ok |-> TRUE, value |-> text.value] ELSE [ok |-> FALSE]

Utf8(text) == [type |-> "utf8", utf8Data |-> text]
Binary == [type |-> "binary", binaryData |-> "bytes"]

(***************************************************************************)
(* The registry `connections = {}`: a plain object, so a lookup that finds *)
(* no own property falls through to Object.prototype.  It is kept as the   *)
(* sequence of its own entries in Object.entries order: the keys that are  *)
(* array indices first, in ascending numeric order, then the other keys in *)
(* insertion order.                                                        *)
(***************************************************************************)
\* Every character of s is a decimal digit.
IsDigits(s) ==
  \A i \in 1..Len(s) : \E d \in 0..9 : SubSeq(s, i, i) = Digit(d)

DigitValue(ch) == CHOOSE d \in 0..9 : Digit(d) = ch

\* a < b for two digit strings of the same length.
RECURSIVE DigitsLess(_, _)
DigitsLess(a, b) ==
  /\ a # ""
  /\ LET x == DigitValue(SubSeq(a, 1, 1))
         y == DigitValue(SubSeq(b, 1, 1))
     IN  \/ x < y
         \/ x = y /\ DigitsLess(SubSeq(a, 2, Len(a)), SubSeq(b, 2, Len(b)))

\* a < b as numbers, for two canonical numeric strings.
IndexLess(a, b) ==
  Len(a) < Len(b) \/ (Len(a) = Len(b) /\ DigitsLess(a, b))

\* The largest array index, 2^32 - 2.
MaxArrayIndex == "4294967294"

\* The key is an array index: the canonical decimal form of an integer from 0
\* to 2^32 - 2.
IsArrayIndex(key) ==
  /\ Len(key) >= 1
  /\ IsDigits(key)
  /\ Len(key) = 1 \/ SubSeq(key, 1, 1) # "0"
  /\ ~IndexLess(MaxArrayIndex, key)

ObjectPrototypeKeys ==
  {"constructor", "toString", "valueOf", "toLocaleString", "hasOwnProperty",
   "isPrototypeOf", "propertyIsEnumerable", "__proto__", "__defineGetter__",
   "__defineSetter__", "__lookupGetter__", "__lookupSetter__"}

Keys(conns) == {conns[i].id : i \in 1..Len(conns)}

HasKey(conns, id) == id \in Keys(conns)

IndexOf(conns, id) == CHOOSE i \in 1..Len(conns) : conns[i].id = id

\* connections[id]
Lookup(conns, id) ==
  IF HasKey(conns, id) THEN Conn(conns[IndexOf(conns, id)].conn)
  ELSE IF id \in ObjectPrototypeKeys THEN Builtin(id)
  ELSE Undefined

\* connections[id] = connection: an existing key keeps its place, a new array
\* index goes behind the smaller array indices, any other new key goes last.
Put(conns, id, connection) ==
  IF HasKey(conns, id)
  THEN [conns EXCEPT ![IndexOf(conns, id)].conn = connection]
  ELSE IF IsArrayIndex(id)
  THEN LET k == Cardinality({i \in 1..Len(conns) :
                               /\ IsArrayIndex(conns[i].id)
                               /\ IndexLess(conns[i].id, id)})
       IN  SubSeq(conns, 1, k) \o <<[id |-> id, conn |-> connection]>>
             \o SubSeq(conns, k + 1, Len(conns))
  ELSE Append(conns, [id |-> id, conn |-> connection])

\* delete connections[id]
Delete(conns, id) ==
  IF HasKey(conns, id)
  THEN LET k == IndexOf(conns, id)
       IN  SubSeq(conns, 1, k - 1) \o SubSeq(conns, k + 1, Len(conns))
  ELSE conns

(***************************************************************************)
(* What one handler run does: the registry it leaves, the sendUTF calls it *)
(* made in order, the connections it called close() on, and whether it     *)
(* threw.                                                                  *)
(***************************************************************************)
Effect(conns, sends, closes) ==
  [connections |-> conns, sends |-> sends, closes |-> closes, threw |-> FALSE]

Throw(conns) ==
  [connections |-> conns, sends |-> <<>>, closes |-> {}, threw |-> TRUE]

Send(to, text) == [to |-> to, data |-> text]

(***************************************************************************)
(* Program constants.                                                      *)
(***************************************************************************)
VALID_MESSAGE_TYPES == {"register", "signal"}

\* The identifier length kept by handleRegisterMessage.
IdLength == 5

AllowedOrigins ==
  {"http://localhost", "http://192.168", "https://webar-spectator.now.sh"}

originIsAllowed(origin) ==
  \E valid \in AllowedOrigins : startsWith(origin, valid)

(***************************************************************************)
(* The handlers, as functions from the registry they find to their Effect. *)
(***************************************************************************)

\* Object.entries(connections).find(([, conn]) => conn === connection), then
\* `const [id] = ...`: destructuring the undefined that find returns when no
\* entry matches throws a TypeError.
getIdFromConnection(conns, connection) ==
  IF \E i \in 1..Len(conns) : conns[i].conn = connection
  THEN LET k == CHOOSE i \in 1..Len(conns) :
                  /\ conns[i].conn = connection
                  /\ \A j \in 1..(i - 1) : conns[j].conn # connection
       IN  [threw |-> FALSE, id |-> conns[k].id]
  ELSE [threw |-> TRUE, id |-> ""]

\* Mutant: the collision check is missing, a register overwrites the entry.
handleRegisterMessage_overwrite(conns, connection, payload) ==
  LET idValue == Prop(payload, "id")
      id == IF idValue.t = "string"
            THEN Str(slice(idValue.s, 0, IdLength))
            ELSE Arr(slice(idValue.a, 0, IdLength))
  IN  IF idValue.t \notin {"string", "array"}
      THEN Throw(conns)
      ELSE IF ToStrThrows(id)
      THEN Throw(conns)
      ELSE Effect(Put(conns, ToStr(id), connection), <<>>, {})

\* Mutant: a collision is also reported to the client with an error envelope.
handleRegisterMessage_notifies(conns, connection, payload) ==
  LET idValue == Prop(payload, "id")
      id == IF idValue.t = "string"
            THEN Str(slice(idValue.s, 0, IdLength))
            ELSE Arr(slice(idValue.a, 0, IdLength))
  IN  IF idValue.t \notin {"string", "array"}
      THEN Throw(conns)
      ELSE IF ToStrThrows(id)
      THEN Throw(conns)
      ELSE IF Truthy(Lookup(conns, ToStr(id)))
      THEN Effect(conns,
                  <<Send(connection,
                         JSONstringify(Obj(<< <<"type", Str("error")>> >>)))>>,
                  {connection})
      ELSE Effect(Put(conns, ToStr(id), connection), <<>>, {})

handleRegisterMessage(conns, connection, payload) ==
  LET idValue == Prop(payload, "id")
      \* payload.id.slice(0, 5): a string of up to 5 characters or an array of
      \* up to 5 elements, used as a property key
      id == IF idValue.t = "string"
            THEN Str(slice(idValue.s, 0, IdLength))
            ELSE Arr(slice(idValue.a, 0, IdLength))
  IN  IF idValue.t \notin {"string", "array"}
      THEN Throw(conns)   \* payload.id.slice is not a function / of undefined
      ELSE IF ToStrThrows(id)
      THEN Throw(conns)   \* connections[id]: the key cannot be converted
      ELSE IF Truthy(Lookup(conns, ToStr(id)))
      THEN Effect(conns, <<>>, {connection})
      ELSE Effect(Put(conns, ToStr(id), connection), <<>>, {})

ErrorResponse(target) ==
  Obj(<< <<"type", Str("error")>>,
         <<"message", Str("Connection " \o ToStr(target) \o " unknown")>> >>)

\* Mutant: the forward goes to the connection found for `source`.
handleSignalMessage_toSource(conns, connection, payload) ==
  LET source == Prop(payload, "source")
      target == Prop(payload, "target")
      targetConnection == Lookup(conns, ToStr(target))
      sourceConnection == Lookup(conns, ToStr(source))
  IN  IF ToStrThrows(target) \/ ToStrThrows(source)
      THEN Throw(conns)
      ELSE IF sourceConnection.t # "connection" \/ sourceConnection.c # connection
      THEN Effect(conns, <<>>, {connection})
      ELSE IF ~Truthy(targetConnection)
      THEN Effect(conns,
                  <<Send(connection, JSONstringify(ErrorResponse(target)))>>, {})
      ELSE IF targetConnection.t # "connection"
      THEN Throw(conns)
      ELSE Effect(conns,
                  <<Send(sourceConnection.c, JSONstringify(payload))>>, {})

\* Mutant: the forward is sent twice.
handleSignalMessage_twice(conns, connection, payload) ==
  LET source == Prop(payload, "source")
      target == Prop(payload, "target")
      targetConnection == Lookup(conns, ToStr(target))
      sourceConnection == Lookup(conns, ToStr(source))
  IN  IF ToStrThrows(target) \/ ToStrThrows(source)
      THEN Throw(conns)
      ELSE IF sourceConnection.t # "connection" \/ sourceConnection.c # connection
      THEN Effect(conns, <<>>, {connection})
      ELSE IF ~Truthy(targetConnection)
      THEN Effect(conns,
                  <<Send(connection, JSONstringify(ErrorResponse(target)))>>, {})
      ELSE IF targetConnection.t # "connection"
      THEN Throw(conns)
      ELSE Effect(conns,
                  <<Send(targetConnection.c, JSONstringify(payload)),
                    Send(targetConnection.c, JSONstringify(payload))>>, {})

\* Mutant: on an identity mismatch the claimed source is removed from the
\* registry before the sender is closed.
handleSignalMessage_unregisters(conns, connection, payload) ==
  LET source == Prop(payload, "source")
      target == Prop(payload, "target")
      targetConnection == Lookup(conns, ToStr(target))
      sourceConnection == Lookup(conns, ToStr(source))
  IN  IF ToStrThrows(target) \/ ToStrThrows(source)
      THEN Throw(conns)
      ELSE IF sourceConnection.t # "connection" \/ sourceConnection.c # connection
      THEN Effect(Delete(conns, ToStr(source)), <<>>, {connection})
      ELSE IF ~Truthy(targetConnection)
      THEN Effect(conns,
                  <<Send(connection, JSONstringify(ErrorResponse(target)))>>, {})
      ELSE IF targetConnection.t # "connection"
      THEN Throw(conns)
      ELSE Effect(conns,
                  <<Send(targetConnection.c, JSONstringify(payload))>>, {})

handleSignalMessage(conns, connection, payload) ==
  LET source == Prop(payload, "source")
      target == Prop(payload, "target")
      targetConnection == Lookup(conns, ToStr(target))
      sourceConnection == Lookup(conns, ToStr(source))
  IN  IF ToStrThrows(target) \/ ToStrThrows(source)
      THEN Throw(conns)   \* connections[target], connections[source]: the key
                          \* cannot be converted
      ELSE IF sourceConnection.t # "connection" \/ sourceConnection.c # connection
      THEN Effect(conns, <<>>, {connection})
      ELSE IF ~Truthy(targetConnection)
      THEN Effect(conns,
                  <<Send(connection, JSONstringify(ErrorResponse(target)))>>, {})
      ELSE IF targetConnection.t # "connection"
      THEN Throw(conns)   \* targetConnection.sendUTF is not a function
      ELSE Effect(conns,
                  <<Send(targetConnection.c, JSONstringify(payload))>>, {})

\* messageHandlers[type](connection, payload)
messageHandlers(type, conns, connection, payload) ==
  IF type = "register"
  THEN handleRegisterMessage(conns, connection, payload)
  ELSE handleSignalMessage(conns, connection, payload)

\* Mutant: the payload is not checked before the handler is called.
onMessage_noPayloadCheck(conns, connection, message) ==
  IF message.type # "utf8"
  THEN Effect(conns, <<>>, {})
  ELSE LET parsed == JSONparse(message.utf8Data)
       IN  IF ~parsed.ok \/ parsed.value.t = "null"
           THEN Throw(conns)
           ELSE LET type == Prop(parsed.value, "type")
                    payload == Prop(parsed.value, "payload")
                IN  IF type.t # "string" \/ type.s \notin VALID_MESSAGE_TYPES
                    THEN Effect(conns, <<>>, {})
                    ELSE IF payload.t \in {"null", "undefined"}
                    THEN Throw(conns)   \* property read of null or undefined
                    ELSE messageHandlers(type.s, conns, connection, payload)

onMessage(conns, connection, message) ==
  IF message.type # "utf8"
  THEN Effect(conns, <<>>, {})
  ELSE LET parsed == JSONparse(message.utf8Data)
       IN  IF ~parsed.ok
           THEN Throw(conns)   \* SyntaxError from JSON.parse
           ELSE IF parsed.value.t = "null"
           THEN Throw(conns)   \* cannot destructure null
           ELSE LET type == Prop(parsed.value, "type")
                    payload == Prop(parsed.value, "payload")
                IN  IF \/ type.t # "string"
                       \/ type.s \notin VALID_MESSAGE_TYPES
                       \/ ~Truthy(payload)
                    THEN Effect(conns, <<>>, {})
                    ELSE messageHandlers(type.s, conns, connection, payload)

onClose(conns, connection) ==
  LET found == getIdFromConnection(conns, connection)
  IN  IF found.threw
      THEN Throw(conns)
      ELSE Effect(Delete(conns, found.id), <<>>, {})

onError(conns, connection) ==
  LET found == getIdFromConnection(conns, connection)
  IN  IF found.threw
      THEN Throw(conns)
      ELSE Effect(conns, <<>>, {})

(***************************************************************************)
(* The frames and origins the clients of the model send.                   *)
(***************************************************************************)
Origins == {"http://localhost:8080", "https://evil.example"}

\* "7" is an array index, which Object.entries lists before the other keys;
\* "alicia" is longer than IdLength; "toString" is a property of
\* Object.prototype.
RegisterIds == {"", "7", "alici", "alicia"}

SignalSources == {"7", "alici", "alicia"}

SignalTargets == {"7", "alici", "toString"}

Envelope(type, payload) ==
  Utf8(JSONstringify(Obj(<< <<"type", Str(type)>>, <<"payload", payload>> >>)))

RegisterPayload(id) == Obj(<< <<"id", Str(id)>> >>)

SignalPayload(source, target) ==
  Obj(<< <<"source", Str(source)>>, <<"target", Str(target)>>,
         <<"type", Str("offer")>>, <<"sdp", Str("v=0")>> >>)

\* A register whose id is the JSON array ["alicia"] instead of a string.
ArrayIdPayload == Obj(<< <<"id", Arr(<<Str("alicia")>>)>> >>)

\* A second payload from "7" to "alici", to tell two forwards apart.
AnswerPayload ==
  Obj(<< <<"source", Str("7")>>, <<"target", Str("alici")>>,
         <<"type", Str("answer")>>, <<"sdp", Str("v=0")>> >>)

\* Payloads with none of the fields the handler reads: an empty object, an id
\* that is no string, a number.
RegisterPayloads ==
  {RegisterPayload(id) : id \in RegisterIds}
    \cup {Obj(<<>>), Obj(<< <<"id", Num(7)>> >>)}

SignalPayloads ==
  {SignalPayload(s, t) : s \in SignalSources, t \in SignalTargets}
    \cup {SignalPayload("toString", "7"), Obj(<<>>), Num(7)}

RegisterFrames == {Envelope("register", p) : p \in RegisterPayloads}

SignalFrames == {Envelope("signal", p) : p \in SignalPayloads}

\* Frames onMessage drops: not text, no object, a type that is not inbound, a
\* payload that is absent, null or falsy.
DroppedFrames ==
  { Binary,
    Utf8(JSONstringify(Num(7))),
    Utf8(JSONstringify(Obj(<< <<"payload", RegisterPayload("7")>> >>))),
    Utf8(JSONstringify(Obj(<< <<"type", Str("register")>> >>))),
    Envelope("error", Obj(<< <<"message", Str("x")>> >>)),
    Envelope("signal", Null),
    Envelope("register", Num(0)) }

\* Text frames that are not a JSON object.
UnparsableFrames == {Utf8(NotJSON), Utf8(JSONstringify(Null))}

Frames ==
  RegisterFrames \cup SignalFrames \cup DroppedFrames \cup UnparsableFrames

\* Signals whose source or target is no string: a number, a boolean, an object
\* with a property "toString".
NonStringSignalPayloads ==
  { Obj(<< <<"source", Num(7)>>, <<"target", Str("alici")>>,
           <<"type", Str("offer")>> >>),
    Obj(<< <<"source", Str("7")>>, <<"target", Bool(TRUE)>>,
           <<"type", Str("offer")>> >>),
    Obj(<< <<"source", Obj(<< <<"toString", Num(1)>> >>)>>,
           <<"target", Str("7")>>, <<"type", Str("offer")>> >>) }

\* Frames of clients whose identifiers may be something else than a string: the
\* protocol comment asks for strings, the handlers do not check.
NonStringFrames ==
  {Envelope("register", p) :
     p \in {RegisterPayload("7"), RegisterPayload("alicia"), ArrayIdPayload}}
    \cup {Envelope("signal", p) :
            p \in {SignalPayload("alicia", "alici"), SignalPayload("7", "alici")}
                    \cup NonStringSignalPayloads}
    \cup {Binary, Utf8(NotJSON)}

\* Frames of two peers that exchange offers and answers.
RoutingFrames ==
  SignalFrames
    \cup {Envelope("signal", AnswerPayload),
          Envelope("register", RegisterPayload("")),
          Envelope("register", RegisterPayload("7")),
          Binary, Utf8(NotJSON)}

(***************************************************************************)
(* State.                                                                  *)
(*   connections  the registry                                             *)
(*   state        per connection object: "idle" (not handed out yet),      *)
(*                "open", "closing" (the server called close(), the close  *)
(*                event is still to come), "errored" (the transport        *)
(*                failed, the close event is still to come), "closed"      *)
(*   sent         every sendUTF call so far, in order                      *)
(*   crashed      a handler threw: the process is gone                     *)
(*   nframes      message events handled since the initial state           *)
(*   last         the last event and what its handler did                  *)
(***************************************************************************)
VARIABLES connections, state, sent, crashed, nframes, last

vars == <<connections, state, sent, crashed, nframes, last>>

Init ==
  /\ connections = <<>>
  /\ state = [c \in Conns |-> "idle"]
  /\ sent = <<>>
  /\ crashed = FALSE
  /\ nframes = 0
  /\ last = [op |-> "init", conn |-> "", arg |-> Undefined, before |-> <<>>,
             sends |-> <<>>, closes |-> {}]

\* connection.close() starts the closing handshake of an open connection and does
\* nothing on any other.
AfterClose(st, closes) ==
  [c \in Conns |-> IF c \in closes /\ st[c] = "open" THEN "closing" ELSE st[c]]

\* The handler of event `op` on connection c ran with effect eff; the transport
\* of c is in state `next` afterwards.
Handled(op, c, arg, eff, next) ==
  /\ connections' = eff.connections
  /\ sent' = sent \o eff.sends
  /\ crashed' = eff.threw
  /\ state' = AfterClose([state EXCEPT ![c] = next], eff.closes)
  /\ last' = [op |-> op, conn |-> c, arg |-> arg, before |-> connections,
              sends |-> eff.sends, closes |-> eff.closes]

\* wsServer.on('request'): a connection object exists only once the request is
\* accepted.
Request(c, origin) ==
  /\ ~crashed
  /\ state[c] = "idle"
  /\ Handled("request", c, Str(origin), Effect(connections, <<>>, {}),
             IF originIsAllowed(origin) THEN "open" ELSE "idle")
  /\ UNCHANGED nframes

\* connection.on('message', onMessage): message events come from an open
\* connection.
Message(c, message) ==
  /\ ~crashed
  /\ state[c] = "open"
  /\ nframes < MaxFrames
  /\ nframes' = nframes + 1
  /\ Handled("message", c, message, onMessage(connections, c, message), state[c])

\* connection.on('close', onClose): emitted once, when the transport is gone.
Close(c) ==
  /\ ~crashed
  /\ state[c] \in {"open", "closing", "errored"}
  /\ Handled("close", c, Undefined, onClose(connections, c), "closed")
  /\ UNCHANGED nframes

\* connection.on('error', onError): the transport failed; its close event follows.
Error(c) ==
  /\ ~crashed
  /\ state[c] \in {"open", "closing"}
  /\ Handled("error", c, Undefined, onError(connections, c), "errored")
  /\ UNCHANGED nframes

\* The event loop runs one handler at a time; `frames` are the frames the clients
\* send.
NextOver(frames) ==
  \/ \E c \in Conns, origin \in Origins : Request(c, origin)
  \/ \E c \in Conns, message \in frames : Message(c, message)
  \/ \E c \in Conns : Close(c)
  \/ \E c \in Conns : Error(c)

Next == NextOver(Frames)

Spec == Init /\ [][Next]_vars

\* The server with clients whose identifiers may be something else than a string.
NextNonString == NextOver(NonStringFrames)

SpecNonString == Init /\ [][NextNonString]_vars

\* The server from the state in which c1 has registered as "7" and c2 as
\* "alici", both still open.
InitRouting ==
  /\ connections = <<[id |-> "7", conn |-> "c1"], [id |-> "alici", conn |-> "c2"]>>
  /\ state = [c \in Conns |-> IF c \in {"c1", "c2"} THEN "open" ELSE "idle"]
  /\ sent = <<>>
  /\ crashed = FALSE
  /\ nframes = 0
  /\ last = [op |-> "message", conn |-> "c2",
             arg |-> Envelope("register", RegisterPayload("alici")),
             before |-> <<[id |-> "7", conn |-> "c1"]>>,
             sends |-> <<>>, closes |-> {}]

NextRouting == NextOver(RoutingFrames)

SpecRouting == InitRouting /\ [][NextRouting]_vars

(***************************************************************************)
(* Vocabulary of the properties.                                           *)
(***************************************************************************)
\* Identifier id is bound to connection c in registry conns.
Bound(conns, id, c) ==
  \E i \in 1..Len(conns) : conns[i].id = id /\ conns[i].conn = c

\* The connections identifier id is bound to in conns.
Holders(conns, id) == {c \in Conns : Bound(conns, id, c)}

\* The last event was the frame {type: "register", payload: {id}}.
LastRegister(id) ==
  last.op = "message" /\ last.arg = Envelope("register", RegisterPayload(id))

\* The last event was the frame {type: "signal", payload}.
LastSignal(payload) ==
  last.op = "message" /\ last.arg = Envelope("signal", payload)

\* The identifier a register with id asks for.
Truncated(id) == SubSeq(id, 1, IF Len(id) < 5 THEN Len(id) ELSE 5)

(***************************************************************************)
(* C1 as stated: Uniqueness.  At most one session is bound to an           *)
(* identifier, and whenever a register names an identifier that is already *)
(* a key, the sender has close() called on it while the session bound to   *)
(* the identifier is not closed and stays bound.                           *)
(***************************************************************************)
C1_AsStated ==
  /\ \A id \in Keys(connections) : Cardinality(Holders(connections, id)) = 1
  /\ \A id \in RegisterIds :
       LastRegister(id) /\ HasKey(last.before, Truncated(id)) =>
         /\ ~crashed
         /\ last.conn \in last.closes
         /\ \A h \in Holders(last.before, Truncated(id)) :
              h \notin last.closes /\ Bound(connections, Truncated(id), h)

(***************************************************************************)
(* C1 amended: at most one session is bound to an identifier, and whenever *)
(* a register names an identifier that is already a key, close() is called *)
(* on the sender and on no other session, the identifier stays bound to    *)
(* the session that held it, and that session is not closed unless it is   *)
(* the sender itself.                                                      *)
(***************************************************************************)
C1_Uniqueness ==
  /\ \A i, j \in 1..Len(connections) :
       connections[i].id = connections[j].id => i = j
  /\ \A id \in Keys(connections) : Cardinality(Holders(connections, id)) = 1
  /\ \A id \in RegisterIds :
       LastRegister(id) /\ HasKey(last.before, Truncated(id)) =>
         /\ ~crashed
         /\ last.closes = {last.conn}
         /\ state[last.conn] = "closing"
         /\ \A h \in Holders(last.before, Truncated(id)) :
              /\ Bound(connections, Truncated(id), h)
              /\ h # last.conn => h \notin last.closes

\* A register collided with an identifier held by another, open session.
C1_Witness ==
  \E id \in RegisterIds :
    /\ LastRegister(id)
    /\ \E h \in Holders(last.before, Truncated(id)) :
         h # last.conn /\ state[h] = "open"

(***************************************************************************)
(* C2: Cleanup.  After the close handler of a session ran, no identifier   *)
(* is bound to that session, and a register for an identifier whose holder *)
(* has closed, sent by another session, binds the sender.                  *)
(***************************************************************************)
C2_Cleanup ==
  /\ last.op = "close" =>
       \A i \in 1..Len(connections) : connections[i].conn # last.conn
  /\ \A id \in RegisterIds :
       /\ LastRegister(id)
       /\ Holders(last.before, Truncated(id)) # {}
       /\ \A h \in Holders(last.before, Truncated(id)) :
            h # last.conn /\ state[h] = "closed"
       => Bound(connections, Truncated(id), last.conn)

(***************************************************************************)
(* C3: Routing correctness.  When A is bound to a, another session B is    *)
(* bound to b and A sends a signal with source a and target b, the handler *)
(* makes exactly one send, to B, of the payload as received; it closes no  *)
(* session and sends nothing to A or to a third session.                   *)
(***************************************************************************)
C3_Routing ==
  \A a \in SignalSources, b \in SignalTargets, B \in Conns :
    /\ LastSignal(SignalPayload(a, b))
    /\ Bound(last.before, a, last.conn)
    /\ Bound(last.before, b, B)
    /\ B # last.conn
    => /\ ~crashed
       /\ Len(last.sends) = 1
       /\ last.sends[1].to = B
       /\ last.sends[1].data = JSONstringify(SignalPayload(a, b))
       /\ Len(sent) >= 1 /\ sent[Len(sent)] = last.sends[1]
       /\ last.closes = {}
       /\ connections = last.before

\* A forwarded a signal to B while a third session was open.
C3_Witness ==
  \E a \in SignalSources, b \in SignalTargets, B \in Conns, T \in Conns :
    /\ LastSignal(SignalPayload(a, b))
    /\ Bound(last.before, a, last.conn)
    /\ Bound(last.before, b, B)
    /\ B # last.conn
    /\ T \notin {B, last.conn} /\ state[T] = "open"

(***************************************************************************)
(* C4: Identity enforcement.  A signal whose source does not resolve to the *)
(* session that sent it (no key, the key of another session, a sender that *)
(* never registered) gets close() called on the sender and on nobody else, *)
(* and nothing is sent, whatever the target.                               *)
(***************************************************************************)
C4_IdentityEnforcement ==
  \A p \in SignalPayloads \cup NonStringSignalPayloads :
    /\ LastSignal(p)
    /\ \/ ToStrThrows(Prop(p, "source"))
       \/ ~Bound(last.before, ToStr(Prop(p, "source")), last.conn)
    => /\ ~crashed
       /\ last.closes = {last.conn}
       /\ state[last.conn] = "closing"
       /\ last.sends = <<>>
       /\ connections = last.before

(***************************************************************************)
(* C5: Unknown target.  A signal from the session bound to its source,     *)
(* with a target bound to no session, sends the sender exactly one error   *)
(* envelope "Connection <target> unknown" and nothing else; the sender is  *)
(* not closed and stays bound.                                             *)
(***************************************************************************)
C5_UnknownTarget ==
  \A s \in SignalSources, t \in SignalTargets :
    /\ LastSignal(SignalPayload(s, t))
    /\ Bound(last.before, s, last.conn)
    /\ Holders(last.before, t) = {}
    => /\ ~crashed
       /\ last.sends =
            << [to |-> last.conn,
                data |-> JSONstringify(
                  Obj(<< <<"type", Str("error")>>,
                         <<"message",
                           Str("Connection " \o t \o " unknown")>> >>))] >>
       /\ last.closes = {}
       /\ Bound(connections, s, last.conn)

(***************************************************************************)
(* C6: Registry liveness invariant.  Every identifier of the registry is   *)
(* bound to a session whose transport is open: never to one on which       *)
(* close() was called, or whose transport closed or errored.               *)
(***************************************************************************)
C6_RegistryLive ==
  \A i \in 1..Len(connections) : state[connections[i].conn] = "open"

(***************************************************************************)
(* C7: No crash.  No sequence of frames, close events and error events     *)
(* makes a handler throw.                                                  *)
(***************************************************************************)
C7_NoCrash == ~crashed

(***************************************************************************)
(* C8: Closing an unbound session is a no-op.  When a session bound to no  *)
(* identifier emits close, the handler completes and the registry is       *)
(* unchanged.                                                              *)
(***************************************************************************)
C8_CloseUnbound ==
  /\ last.op = "close"
  /\ \A i \in 1..Len(last.before) : last.before[i].conn # last.conn
  => ~crashed /\ connections = last.before

(***************************************************************************)
(* C9: Register at most once.  Every session is bound to at most one       *)
(* identifier, and a register sent by a session that is already bound adds *)
(* no registry entry.                                                      *)
(***************************************************************************)
C9_RegisterOnce ==
  /\ \A i, j \in 1..Len(connections) :
       connections[i].conn = connections[j].conn => i = j
  /\ /\ last.op = "message"
     /\ last.arg \in RegisterFrames
     /\ \E i \in 1..Len(last.before) : last.before[i].conn = last.conn
     => Len(connections) = Len(last.before)

(***************************************************************************)
(* C10: Idempotent drop.  An envelope whose type is neither register nor   *)
(* signal, or whose payload is null or absent, leaves the registry as it   *)
(* was, sends nothing and closes nobody.                                   *)
(***************************************************************************)
C10_IdempotentDrop ==
  /\ last.op = "message"
  /\ last.arg.type = "utf8"
  /\ last.arg.utf8Data.parses
  /\ last.arg.utf8Data.value.t = "object"
  /\ \/ Prop(last.arg.utf8Data.value, "type") \notin {Str("register"), Str("signal")}
     \/ Prop(last.arg.utf8Data.value, "payload") \in {Null, Undefined}
  => /\ ~crashed
     /\ connections = last.before
     /\ last.sends = <<>>
     /\ last.closes = {}
     /\ state[last.conn] \in {"open", "closing"}

\* A signal envelope with a null payload was handled while the registry held an
\* entry.
C10_Witness ==
  /\ last.op = "message"
  /\ last.arg = Envelope("signal", Null)
  /\ connections # <<>>

(***************************************************************************)
(* C11: Malformed frames are silently dropped.  A frame that is not text,  *)
(* or a text frame that is not JSON or not a JSON object, leaves the       *)
(* registry unchanged, sends nothing, closes nobody and leaves the server  *)
(* running.                                                                *)
(***************************************************************************)
C11_MalformedDropped ==
  /\ last.op = "message"
  /\ \/ last.arg.type # "utf8"
     \/ ~last.arg.utf8Data.parses
     \/ last.arg.utf8Data.value.t # "object"
  => /\ ~crashed
     /\ connections = last.before
     /\ last.sends = <<>>
     /\ last.closes = {}

(***************************************************************************)
(* C12: Transport error triggers deregistration.  After the error handler *)
(* of a registered session ran, no identifier it held is a key of the      *)
(* registry.                                                               *)
(***************************************************************************)
C12_ErrorDeregisters ==
  last.op = "error" =>
    \A i \in 1..Len(last.before) :
      last.before[i].conn = last.conn => ~HasKey(connections, last.before[i].id)

(***************************************************************************)
(* C13: Identifier truncation.  A register with a string longer than 5     *)
(* characters whose 5-character prefix is free binds the sender under that *)
(* prefix and under no other key; a register from another session with    *)
(* exactly a bound 5-character identifier collides: the sender is closed   *)
(* and not bound.                                                          *)
(***************************************************************************)
C13_Truncation ==
  /\ \A id \in RegisterIds :
       /\ Len(id) > 5
       /\ LastRegister(id)
       /\ ~HasKey(last.before, Truncated(id))
       => /\ ~crashed
          /\ connections =
               Append(last.before, [id |-> Truncated(id), conn |-> last.conn])
          /\ last.closes = {}
  /\ \A id \in RegisterIds :
       /\ Len(id) = 5
       /\ LastRegister(id)
       /\ \E h \in Holders(last.before, id) : h # last.conn
       => /\ last.closes = {last.conn}
          /\ ~Bound(connections, id, last.conn)
          /\ connections = last.before

\* A register with "alicia" was bound under "alici" beside another entry.
C13_Witness ==
  /\ LastRegister("alicia")
  /\ Bound(connections, "alici", last.conn)
  /\ Len(last.before) >= 1

(***************************************************************************)
(* C14: Non-empty identifiers.  The empty identifier is never a key of the *)
(* registry; a register whose identifier is empty binds nothing.           *)
(***************************************************************************)
C14_NonEmpty ==
  /\ "" \notin Keys(connections)
  /\ LastRegister("") => connections = last.before

(***************************************************************************)
(* C15: A colliding register has no other effect.  When a register names   *)
(* an identifier that is already a key, the registry is the same before    *)
(* and after, and no envelope is sent to anyone.                           *)
(***************************************************************************)
C15_CollisionFrame ==
  \A id \in RegisterIds :
    LastRegister(id) /\ HasKey(last.before, Truncated(id)) =>
      /\ connections = last.before
      /\ last.sends = <<>>

\* A register collided while the registry held two entries.
C15_Witness ==
  /\ \E id \in RegisterIds :
       LastRegister(id) /\ HasKey(last.before, Truncated(id))
  /\ Len(last.before) >= 2

(***************************************************************************)
(* C17: Close removes only the closing session's own entry.  The close     *)
(* handler of a session S deletes no entry bound to another session,       *)
(* leaves no identifier bound to S, and no identifier is ever bound to two *)
(* sessions.                                                               *)
(***************************************************************************)
C17_CloseOwnEntry ==
  /\ \A id \in Keys(connections) : Cardinality(Holders(connections, id)) = 1
  /\ last.op = "close" =>
       /\ \A i \in 1..Len(last.before) :
            last.before[i].conn # last.conn =>
              Bound(connections, last.before[i].id, last.before[i].conn)
       /\ \A id \in Keys(connections) : ~Bound(connections, id, last.conn)

(***************************************************************************)
(* C18: Per-sender forwarding order.  The log of sends only ever grows at  *)
(* its end, and the handler of a signal whose source is bound to the       *)
(* sender and whose target is bound to B appends exactly one send, of that *)
(* payload to B: B is sent the payloads in the order the frames were       *)
(* handled, each once.                                                     *)
(***************************************************************************)
C18_ForwardOrder ==
  [][/\ Len(sent') >= Len(sent)
     /\ SubSeq(sent', 1, Len(sent)) = sent
     /\ \A p \in SignalPayloads \cup {AnswerPayload}, B \in Conns :
          /\ last'.op = "message"
          /\ last'.arg = Envelope("signal", p)
          /\ Bound(connections, ToStr(Prop(p, "source")), last'.conn)
          /\ Bound(connections, ToStr(Prop(p, "target")), B)
          => sent' = Append(sent, [to |-> B, data |-> JSONstringify(p)])]_vars

\* "7" sent an offer and then an answer to "alici", both still registered, a
\* third frame was handled as well, and c2 was sent the two in that order.
C18_Witness ==
  /\ Bound(connections, "7", "c1")
  /\ Bound(connections, "alici", "c2")
  /\ nframes = 3
  /\ Len(sent) = 2
  /\ sent[1] = [to |-> "c2", data |-> JSONstringify(SignalPayload("7", "alici"))]
  /\ sent[2] = [to |-> "c2", data |-> JSONstringify(AnswerPayload)]

(***************************************************************************)
(* C19: Signal handling never mutates the registry.  After the handler of  *)
(* a signal frame the registry has the keys and the bindings it had        *)
(* before, whatever the outcome.                                           *)
(***************************************************************************)
C19_SignalKeepsRegistry ==
  \A p \in SignalPayloads \cup NonStringSignalPayloads \cup {AnswerPayload} :
    LastSignal(p) => connections = last.before

\* A signal to an unknown target was answered with an error envelope while the
\* registry held two entries.
C19_Witness ==
  /\ \E p \in SignalPayloads :
       /\ LastSignal(p)
       /\ Len(last.sends) = 1
       /\ last.sends[1].to = last.conn
  /\ Len(last.before) >= 2

(***************************************************************************)
(* C20: Identifiers are truncated at registration only.  Every registry    *)
(* key has at most 5 characters, and a signal whose source is longer than  *)
(* 5 characters gets its sender closed with nothing sent.                  *)
(***************************************************************************)
C20_TruncatedAtRegistration ==
  /\ \A id \in Keys(connections) : Len(id) <= 5
  /\ \A p \in SignalPayloads :
       /\ LastSignal(p)
       /\ Prop(p, "source").t = "string"
       /\ Len(Prop(p, "source").s) > 5
       => last.closes = {last.conn} /\ last.sends = <<>>

====
